---- MODULE Spec2Model ----
(***************************************************************************)
(* Model of the DCF valuation scripts src/app.py (the command-line script, *)
(* variant "cli") and src/streamlit_app.py (variant "streamlit").          *)
(*                                                                         *)
(* Each script is a straight-line program; pc is its position.  Floating   *)
(* point amounts and rates are modelled as exact rationals <<n, d>> with   *)
(* d > 0 in lowest terms; None is the empty tuple.  Money is counted in    *)
(* units of 10 000 currency units, so that one million is 100 units and    *)
(* round(x / 1e6, 2) is rounding to a whole number of units.               *)
(***************************************************************************)
EXTENDS Integers, Sequences, FiniteSets, TLC

\* ------------------------------------------------------------------ bounds
\* Largest number of projection years explored (the slider allows 1..10).
MaxYears == 2

\* ------------------------------------------------------- rational numbers
Abs(x) == IF x < 0 THEN -x ELSE x

RECURSIVE GCD(_, _)
GCD(a, b) == IF b = 0 THEN a ELSE GCD(b, a % b)

LCM(a, b) == (a \div GCD(a, b)) * b

Norm(n, d) == LET g == GCD(Abs(n), d) IN <<n \div g, d \div g>>

R(n) == <<n, 1>>
Zero == R(0)
One == R(1)
Hundred == R(100)
None == <<>>

Add(a, b) == LET l == LCM(a[2], b[2])
             IN Norm(a[1] * (l \div a[2]) + b[1] * (l \div b[2]), l)
Neg(a) == <<-a[1], a[2]>>
Sub(a, b) == Add(a, Neg(b))
Mul(a, b) == LET g1 == GCD(Abs(a[1]), b[2])
                 g2 == GCD(Abs(b[1]), a[2])
             IN Norm((a[1] \div g1) * (b[1] \div g2), (a[2] \div g2) * (b[2] \div g1))
Inv(a) == IF a[1] > 0 THEN <<a[2], a[1]>> ELSE <<-a[2], -a[1]>>
\* a / b for b # 0; a division by zero is decided by the caller (it raises).
Div(a, b) == Mul(a, Inv(b))
IsZero(a) == a[1] = 0
Sign(a) == IF a[1] > 0 THEN 1 ELSE IF a[1] < 0 THEN -1 ELSE 0
Lt(a, b) == Sign(Sub(a, b)) < 0
Le(a, b) == Sign(Sub(a, b)) <= 0
Gt(a, b) == Lt(b, a)
Ge(a, b) == Le(b, a)

RECURSIVE Pow(_, _)
Pow(a, k) == IF k = 0 THEN One ELSE Mul(a, Pow(a, k - 1))

RECURSIVE SumList(_)
SumList(s) == IF s = <<>> THEN Zero ELSE Add(Head(s), SumList(Tail(s)))

\* Python's truthiness of an optional float: None and 0.0 are falsy.
Truthy(x) == x # None /\ ~IsZero(x)

\* --------------------------------------------------------- input domains
Variants == {"cli", "streamlit"}
FcfValues == {R(-1), R(0), R(1), R(3)}
EquityValues == {R(0), R(1)}
DebtValues == {R(0), R(2)}
TaxValues == {R(0), R(100)}
MosValues == {0, 25, 50}
GrowthPercents == {R(0), R(5)}
TerminalPercents == {R(0), R(5), R(10)}
DiscountPercents == {R(0), R(5), R(10)}
PriceValues == {None, R(0), R(4), R(10)}

\* ------------------------------------------------------------------ state
VARIABLES variant, pc, fault, ticker, mos_percent, tax_rate, fcf, equity_value,
          debt_value, current_price, wacc, growth_rate, discount_rate, years,
          terminal_growth, i, fcf_list, last_fcf, terminal_value,
          discounted_terminal, dcf_value, shares_outstanding, implied_price,
          gap_pct, badge, table

vars == <<variant, pc, fault, ticker, mos_percent, tax_rate, fcf, equity_value,
          debt_value, current_price, wacc, growth_rate, discount_rate, years,
          terminal_growth, i, fcf_list, last_fcf, terminal_value,
          discounted_terminal, dcf_value, shares_outstanding, implied_price,
          gap_pct, badge, table>>

inputVars == <<mos_percent, tax_rate, fcf, equity_value, debt_value,
               current_price, wacc, growth_rate, discount_rate, years,
               terminal_growth, ticker>>
calcVars == <<i, fcf_list, last_fcf, terminal_value, discounted_terminal,
              dcf_value>>
marketVars == <<shares_outstanding, implied_price, gap_pct, badge>>

Init ==
    /\ variant \in Variants
    /\ pc = "start"
    /\ fault = "none"
    /\ ticker = "unset"
    /\ mos_percent = 25
    /\ tax_rate = R(21)
    /\ fcf = Zero
    /\ equity_value = Zero
    /\ debt_value = Zero
    /\ current_price = None
    /\ wacc = None
    /\ growth_rate = None
    /\ discount_rate = None
    /\ years = 0
    /\ terminal_growth = None
    /\ i = 0
    /\ fcf_list = <<>>
    /\ last_fcf = None
    /\ terminal_value = None
    /\ discounted_terminal = None
    /\ dcf_value = None
    /\ shares_outstanding = 0
    /\ implied_price = None
    /\ gap_pct = None
    /\ badge = "none"
    /\ table = <<>>

\* ------------------------------------------------- the valuation formulas
\* growth_rate and terminal_growth are percentages in the streamlit script
\* (divided by 100.0 where used) and decimals in the command-line script.
AsDecimal(v, x) == IF v = "streamlit" THEN Div(x, Hundred) ELSE x

\* future_fcf = fcf * (1 + g) ** i
FutureFcf(f, g, k) == Mul(f, Pow(Add(One, g), k))

\* Mutant: simple instead of compound growth and discounting.
DiscountedFcf_Simple(f, g, r, k) ==
    Div(Mul(f, Add(One, Mul(g, R(k)))), Add(One, Mul(r, R(k))))

\* Mutant: the growth is compounded but the discounting is left out.
DiscountedFcf_Undiscounted(f, g, r, k) == Mul(f, Pow(Add(One, g), k))

\* discounted_fcf = future_fcf / ((1 + discount_rate) ** i)
DiscountedFcf(f, g, r, k) == Div(FutureFcf(f, g, k), Pow(Add(One, r), k))

\* (last_fcf * (1 + tg)) / (discount_rate - tg); raises when the divisor is 0.
GordonRaises(r, tg) == IsZero(Sub(r, tg))
GordonValue(last, tg, r) == Div(Mul(last, Add(One, tg)), Sub(r, tg))

\* The streamlit script catches the exception and uses 0.0; the
\* command-line script has no handler.
TerminalHandled(v) == v = "streamlit"

\* discounted_terminal = terminal_value / ((1 + discount_rate) ** years)
DiscountTerminal(tv, r, n) == Div(tv, Pow(Add(One, r), n))

\* Mutant: the terminal value is left out of the total.
DcfValue_NoTerminal(list, dt) == SumList(list)

\* dcf_value = sum(fcf_list) + discounted_terminal
DcfValue(list, dt) == Add(SumList(list), dt)

\* wacc from the capital structure, with 10 % cost of equity and 5 % cost of debt.
CostOfEquity == R(10)
CostOfDebt == R(5)
Wacc(e, d, tax) ==
    LET total_value == Add(e, d)
    IN IF Gt(total_value, Zero)
       THEN Add(Mul(Div(e, total_value), Div(CostOfEquity, Hundred)),
                Mul(Mul(Div(d, total_value), Div(CostOfDebt, Hundred)),
                    Sub(One, Div(tax, Hundred))))
       ELSE Zero

\* ------------------------------------------------ implied price and badge
\* Mutant: "if shares_outstanding:" instead of "> 0".
SharesUsable_Truthy(s) == s # 0
SharesUsable(s) == s > 0
PriceAvailable(p) == Truthy(p)
\* Mutant: the percentage is used without the division by 100.
MosThreshold_Percent(m) == R(m)
MosThreshold(m) == Norm(m, 100)

\* Mutant: strict comparisons at the thresholds.
Classify_Strict(ip, cp, m) ==
    LET upper == Mul(cp, Add(One, m))
        lower == Mul(cp, Sub(One, m))
    IN IF Gt(ip, upper) THEN "UNDERVALUED"
       ELSE IF Lt(ip, lower) THEN "OVERVALUED"
       ELSE "AROUND FAIR VALUE"

Classify(ip, cp, m) ==
    LET upper == Mul(cp, Add(One, m))
        lower == Mul(cp, Sub(One, m))
    IN IF Ge(ip, upper) THEN "UNDERVALUED"
       ELSE IF Le(ip, lower) THEN "OVERVALUED"
       ELSE "AROUND FAIR VALUE"

\* Mutant: the badge compares against "current_price or 0", as line 286 displays it.
Badge_DefaultZero(ip, cp, m) ==
    IF cp = None THEN Classify(ip, Zero, m) ELSE Classify(ip, cp, m)

\* The badge is rendered only when current_price is truthy (lines 299-307).
Badge(ip, cp, m) == IF PriceAvailable(cp) THEN Classify(ip, cp, m) ELSE "none"

\* gap_pct is computed only when current_price is truthy (lines 290-294).
GapPct(ip, cp) == IF PriceAvailable(cp) THEN Div(Sub(ip, cp), cp) ELSE None

\* -------------------------------------------------------- sensitivity grid
discount_rates == <<Norm(8, 100), Norm(9, 100), Norm(10, 100), Norm(11, 100), Norm(12, 100)>>
growth_rates == <<Norm(1, 100), Norm(2, 100), Norm(3, 100), Norm(4, 100), Norm(5, 100)>>

\* 1e6 currency units, in the model's money unit.
UnitsPerMillion == Hundred

\* Python's round(x, 2): to the nearest hundredth, ties to the even one.
Round2(x) ==
    LET y == Mul(x, Hundred)
        fl == y[1] \div y[2]
        rem == y[1] - fl * y[2]
        n == IF 2 * rem < y[2] THEN fl
             ELSE IF 2 * rem > y[2] THEN fl + 1
             ELSE IF fl % 2 = 0 THEN fl ELSE fl + 1
    IN Norm(n, 100)

\* for i in range(years): intrinsic += fcf / ((1 + r) ** (i + 1))
RECURSIVE ConstantStream(_, _, _)
ConstantStream(f, r, n) ==
    IF n = 0 THEN Zero
    ELSE Add(ConstantStream(f, r, n - 1), Div(f, Pow(Add(One, r), n)))

\* Mutant: the terminal value of a cell is not discounted over the horizon.
GridCell_Undiscounted(f, n, g, r) ==
    LET intrinsic == ConstantStream(f, r, n)
        terminal == IF IsZero(Sub(r, g)) THEN Zero
                    ELSE Div(Mul(f, Add(One, g)), Sub(r, g))
        total_val == Add(intrinsic, terminal)
    IN Round2(Div(total_val, UnitsPerMillion))

GridCell(f, n, g, r) ==
    LET intrinsic == ConstantStream(f, r, n)
        terminal == IF IsZero(Sub(r, g)) THEN Zero
                    ELSE Div(Mul(f, Add(One, g)), Sub(r, g))
        discounted == Div(terminal, Pow(Add(One, r), n))
        total_val == Add(intrinsic, discounted)
    IN Round2(Div(total_val, UnitsPerMillion))

GridRowOf(f, n, g) == [c \in 1..Len(discount_rates) |-> GridCell(f, n, g, discount_rates[c])]

\* ---------------------------------------------------------------- actions
\* app.py lines 29-39: the inputs of the command-line script.
CliInputs ==
    /\ pc = "start" /\ variant = "cli"
    /\ \E f \in FcfValues, gp \in GrowthPercents, dp \in DiscountPercents,
          n \in 0..MaxYears, tp \in TerminalPercents :
          /\ fcf' = f
          /\ growth_rate' = Div(gp, Hundred)
          /\ discount_rate' = Div(dp, Hundred)
          /\ years' = n
          /\ terminal_growth' = Div(tp, Hundred)
    /\ i' = 1
    /\ pc' = "project"
    /\ UNCHANGED <<variant, fault, ticker, mos_percent, tax_rate, equity_value,
                   debt_value, current_price, wacc, fcf_list, last_fcf,
                   terminal_value, discounted_terminal, dcf_value, table>>
    /\ UNCHANGED marketVars

\* streamlit_app.py lines 100-103: the sidebar settings.
Sidebar ==
    /\ pc = "start" /\ variant = "streamlit"
    /\ mos_percent' \in MosValues
    /\ tax_rate' \in TaxValues
    /\ pc' = "fetch"
    /\ UNCHANGED <<variant, fault, ticker, fcf, equity_value, debt_value,
                   current_price, wacc, growth_rate, discount_rate, years,
                   terminal_growth, table>>
    /\ UNCHANGED calcVars
    /\ UNCHANGED marketVars

\* streamlit_app.py lines 143-218: the data fetch succeeded.
FetchOk ==
    /\ pc = "fetch"
    /\ ticker' = "ok"
    /\ equity_value' \in EquityValues
    /\ debt_value' \in DebtValues
    /\ fcf' \in FcfValues
    /\ current_price' \in PriceValues
    /\ pc' = "wacc"
    /\ UNCHANGED <<variant, fault, mos_percent, tax_rate, wacc, growth_rate,
                   discount_rate, years, terminal_growth, table>>
    /\ UNCHANGED calcVars
    /\ UNCHANGED marketVars

\* streamlit_app.py lines 220-223: the data fetch raised.
FetchFailed ==
    /\ pc = "fetch"
    /\ ticker' = "failed"
    /\ fcf' = Zero /\ equity_value' = Zero /\ debt_value' = Zero
    /\ current_price' = None
    /\ pc' = "wacc"
    /\ UNCHANGED <<variant, fault, mos_percent, tax_rate, wacc, growth_rate,
                   discount_rate, years, terminal_growth, table>>
    /\ UNCHANGED calcVars
    /\ UNCHANGED marketVars

\* streamlit_app.py line 143: an empty ticker skips the fetch; stock is unbound.
NoTicker ==
    /\ pc = "fetch"
    /\ ticker' = "empty"
    /\ pc' = "wacc"
    /\ UNCHANGED <<variant, fault, mos_percent, tax_rate, fcf, equity_value,
                   debt_value, current_price, wacc, growth_rate, discount_rate,
                   years, terminal_growth, table>>
    /\ UNCHANGED calcVars
    /\ UNCHANGED marketVars

\* streamlit_app.py lines 229-238.
ComputeWacc ==
    /\ pc = "wacc"
    /\ wacc' = Wacc(equity_value, debt_value, tax_rate)
    /\ pc' = "inputs"
    /\ UNCHANGED <<variant, fault, ticker, mos_percent, tax_rate, fcf,
                   equity_value, debt_value, current_price, growth_rate,
                   discount_rate, years, terminal_growth, table>>
    /\ UNCHANGED calcVars
    /\ UNCHANGED marketVars

\* streamlit_app.py lines 244-248.
DcfInputs ==
    /\ pc = "inputs"
    /\ growth_rate' \in GrowthPercents
    /\ discount_rate' = wacc
    /\ years' \in 1..MaxYears
    /\ terminal_growth' \in TerminalPercents
    /\ i' = 1
    /\ pc' = "project"
    /\ UNCHANGED <<variant, fault, ticker, mos_percent, tax_rate, fcf,
                   equity_value, debt_value, current_price, wacc, fcf_list,
                   last_fcf, terminal_value, discounted_terminal, dcf_value,
                   table>>
    /\ UNCHANGED marketVars

\* One iteration of the projection loop (app.py 45-48, streamlit_app.py 252-255).
ProjectStep ==
    /\ pc = "project" /\ i <= years
    /\ fcf_list' = Append(fcf_list,
                          DiscountedFcf(fcf, AsDecimal(variant, growth_rate),
                                        discount_rate, i))
    /\ i' = i + 1
    /\ UNCHANGED <<variant, pc, fault, last_fcf, terminal_value,
                   discounted_terminal, dcf_value, table>>
    /\ UNCHANGED inputVars
    /\ UNCHANGED marketVars

\* The terminal value (app.py 51-53, streamlit_app.py 258-263).
TerminalValue ==
    /\ pc = "project" /\ i > years
    /\ LET g == AsDecimal(variant, growth_rate)
           tg == AsDecimal(variant, terminal_growth)
           last == FutureFcf(fcf, g, years)
           raises == GordonRaises(discount_rate, tg)
           tv == IF raises THEN Zero ELSE GordonValue(last, tg, discount_rate)
       IN /\ last_fcf' = last
          /\ IF raises /\ ~TerminalHandled(variant)
             THEN /\ fault' = "ZeroDivisionError"
                  /\ pc' = "crashed"
                  /\ UNCHANGED <<terminal_value, discounted_terminal>>
             ELSE /\ terminal_value' = tv
                  /\ discounted_terminal' = DiscountTerminal(tv, discount_rate, years)
                  /\ pc' = "aggregate"
                  /\ UNCHANGED fault
    /\ UNCHANGED <<variant, i, fcf_list, dcf_value, table>>
    /\ UNCHANGED inputVars
    /\ UNCHANGED marketVars

\* The total (app.py 56, streamlit_app.py 265).
Aggregate ==
    /\ pc = "aggregate"
    /\ dcf_value' = DcfValue(fcf_list, discounted_terminal)
    /\ pc' = IF variant = "cli" THEN "done" ELSE "shares"
    /\ UNCHANGED <<variant, fault, i, fcf_list, last_fcf, terminal_value,
                   discounted_terminal, table>>
    /\ UNCHANGED inputVars
    /\ UNCHANGED marketVars

\* streamlit_app.py lines 274-278: int(stock.info.get("sharesOutstanding", 0) or 0),
\* 0 when the lookup raises (always so when stock is unbound).
ShareCounts == {-1, 0, 1, 2}
FetchShares ==
    /\ pc = "shares"
    /\ \E outcome \in {"value", "missing", "error"}, n \in ShareCounts :
          /\ ticker = "empty" => outcome = "error"
          /\ shares_outstanding' = IF outcome = "value" THEN n ELSE 0
    /\ pc' = "compare"
    /\ UNCHANGED <<variant, fault, implied_price, gap_pct, badge, table>>
    /\ UNCHANGED inputVars
    /\ UNCHANGED calcVars

\* streamlit_app.py lines 280-309: implied price, upside and badge.
CompareWithMarket ==
    /\ pc = "compare"
    /\ IF SharesUsable(shares_outstanding)
       THEN IF shares_outstanding = 0
            THEN \* dcf_value / 0 raises; nothing catches it here
                 /\ fault' = "ZeroDivisionError"
                 /\ pc' = "crashed"
                 /\ UNCHANGED <<implied_price, gap_pct, badge>>
            ELSE LET ip == Div(dcf_value, R(shares_outstanding))
                     mos_threshold == MosThreshold(mos_percent)
                 IN /\ implied_price' = ip
                    /\ gap_pct' = GapPct(ip, current_price)
                    /\ badge' = Badge(ip, current_price, mos_threshold)
                    /\ pc' = "grid"
                    /\ UNCHANGED fault
       ELSE /\ pc' = "grid"
            /\ UNCHANGED <<fault, implied_price, gap_pct, badge>>
    /\ UNCHANGED <<variant, shares_outstanding, table>>
    /\ UNCHANGED inputVars
    /\ UNCHANGED calcVars

\* The sensitivity table (streamlit_app.py lines 341-355): one row per growth
\* rate, one column per discount rate, built by the nested loops.
RECURSIVE BuildTable(_, _, _)
BuildTable(f, n, rows) ==
    IF rows = 0 THEN <<>>
    ELSE Append(BuildTable(f, n, rows - 1), GridRowOf(f, n, growth_rates[rows]))

\* The table is a function of fcf and years alone; it is tabulated once.
TableOf == [f \in FcfValues |-> [n \in 1..MaxYears |-> BuildTable(f, n, Len(growth_rates))]]

SensitivityTable ==
    /\ pc = "grid"
    /\ table' = TableOf[fcf][years]
    /\ pc' = "done"
    /\ UNCHANGED <<variant, fault>>
    /\ UNCHANGED inputVars
    /\ UNCHANGED calcVars
    /\ UNCHANGED marketVars

Next ==
    \/ CliInputs
    \/ Sidebar
    \/ FetchOk
    \/ FetchFailed
    \/ NoTicker
    \/ ComputeWacc
    \/ DcfInputs
    \/ ProjectStep
    \/ TerminalValue
    \/ Aggregate
    \/ FetchShares
    \/ CompareWithMarket
    \/ SensitivityTable

Spec == Init /\ [][Next]_vars

\* ================================================================= claims
G == AsDecimal(variant, growth_rate)
Tg == AsDecimal(variant, terminal_growth)
\* The terminal-value step has run (it sets last_fcf first).
TerminalRan == last_fcf # None
\* The comparison with the market has run (streamlit script only).
Compared == variant = "streamlit" /\ pc \in {"grid", "done"}

\* C1: when the discount rate is strictly below the terminal growth rate the
\* terminal value is the sentinel 0 or a clamped value (one with the sign of
\* the last cash flow, as a positive divisor gives), and nothing raised.
C1_NonConvergencePolicy ==
    (TerminalRan /\ Lt(discount_rate, Tg))
        => /\ fault = "none"
           /\ terminal_value # None
           /\ \/ terminal_value = Zero
              \/ Sign(terminal_value) = Sign(last_fcf)

\* C2: when the discount rate equals the terminal growth rate the terminal
\* step ends in the defined outcome (terminal value 0.0) without an unhandled
\* fault, and the run goes on to the intrinsic value.
C2_EqualRatesRecover ==
    (TerminalRan /\ discount_rate = Tg)
        => /\ fault = "none"
           /\ pc # "crashed"
           /\ terminal_value = Zero
           /\ discounted_terminal = Zero

\* The verdict the specification's rule gives for an implied price ip, a
\* market price cp and a margin of m percent.
RuleVerdict(ip, cp, m) ==
    LET upper == Mul(cp, Norm(100 + m, 100))
        lower == Mul(cp, Norm(100 - m, 100))
    IN IF Sign(Sub(ip, upper)) >= 0 THEN "UNDERVALUED"
       ELSE IF Sign(Sub(ip, lower)) <= 0 THEN "OVERVALUED"
       ELSE "AROUND FAIR VALUE"
UpperThreshold == Mul(current_price, Norm(100 + mos_percent, 100))
LowerThreshold == Mul(current_price, Norm(100 - mos_percent, 100))

C4_SymmetryForEveryMargin ==
    (Compared /\ implied_price # None /\ current_price # None)
        => /\ implied_price = UpperThreshold => badge = "UNDERVALUED"
           /\ implied_price = LowerThreshold => badge = "OVERVALUED"
           /\ implied_price = current_price => badge = "AROUND FAIR VALUE"

\* C4 amended: the symmetry holds for every margin m > 0 and every positive
\* current price; at m = 0 the three cases coincide and the badge is
\* Undervalued.
C4_SymmetryForPositiveMargin ==
    (Compared /\ implied_price # None /\ current_price # None
              /\ Gt(current_price, Zero))
        => /\ mos_percent > 0 =>
                /\ implied_price = UpperThreshold => badge = "UNDERVALUED"
                /\ implied_price = LowerThreshold => badge = "OVERVALUED"
                /\ implied_price = current_price => badge = "AROUND FAIR VALUE"
           /\ (mos_percent = 0 /\ implied_price = current_price)
                => badge = "UNDERVALUED"

\* C4 witness: an implied price exactly on the upper threshold of a positive
\* margin, classified Undervalued.
C4_Witness ==
    /\ Compared /\ implied_price # None /\ Truthy(current_price)
    /\ mos_percent > 0
    /\ implied_price = UpperThreshold
    /\ badge = "UNDERVALUED"

\* C5: when shares_outstanding is zero, missing or negative no implied price
\* is computed, no upside and no badge are shown, and the division by the
\* share count is never executed (nothing raises).
C5_NoPriceWithoutShares ==
    (variant = "streamlit" /\ pc \in {"grid", "done", "crashed"}
                           /\ shares_outstanding <= 0)
        => /\ implied_price = None
           /\ gap_pct = None
           /\ badge = "none"
           /\ fault = "none"
           /\ pc # "crashed"

\* C5 witness: a run with a fetched ticker, a market price and a non-zero
\* intrinsic value, but zero shares, which ends without an implied price.
C5_Witness ==
    /\ variant = "streamlit" /\ pc = "done"
    /\ ticker = "ok" /\ Truthy(current_price)
    /\ shares_outstanding = 0
    /\ ~IsZero(dcf_value)
    /\ implied_price = None

\* C6: when current_price is None no badge is emitted and the upside is not
\* computed, also when shares_outstanding is positive.
C6_NoVerdictWithoutPrice ==
    (Compared /\ current_price = None)
        => /\ badge = "none"
           /\ gap_pct = None
           /\ fault = "none"

\* C6 witness: positive shares and a computed implied price, but no market
\* price after a successful fetch.
C6_Witness ==
    /\ Compared /\ ticker = "ok"
    /\ current_price = None
    /\ shares_outstanding > 0
    /\ implied_price # None /\ ~IsZero(implied_price)
    /\ badge = "none"

\* a < b for rationals with b # 0, by the sign and size of the quotient.
Below(a, b) ==
    IF IsZero(b) THEN Sign(a) < 0
    ELSE LET q == Div(a, b)
         IN IF Sign(b) > 0 THEN q[1] < q[2] ELSE q[1] > q[2]

\* The discount rates a run is compared with.
ComparedRates == {Zero, Norm(1, 30), Norm(1, 20), Norm(1, 15), Norm(1, 10), Norm(3, 20)}

\* What the code computes for the discounted terminal value at rate r.
DiscountedTerminalAt(r) ==
    DiscountTerminal(GordonValue(FutureFcf(fcf, G, years), Tg, r), r, years)

\* Every entry and the discounted terminal value are strictly smaller at
\* every compared rate above the run's own rate.
StrictlyDecreasing ==
    \A r2 \in ComparedRates :
        Gt(r2, discount_rate) =>
            /\ \A k \in 1..Len(fcf_list) :
                  Below(DiscountedFcf(fcf, G, r2, k), fcf_list[k])
            /\ Below(DiscountedTerminalAt(r2), discounted_terminal)

\* The terminal step has just run with the discount rate above the terminal
\* growth rate.
Convergent == pc = "aggregate" /\ Gt(discount_rate, Tg)

\* C7 as stated: for every base cash flow, zero and negative ones included,
\* a higher discount rate strictly decreases every entry and the discounted
\* terminal value (both rates above the terminal growth rate).
C7_MonotoneForEveryBase == Convergent => StrictlyDecreasing

\* C7 amended: the same for a positive base cash flow; a zero base gives
\* equal (zero) values and a negative base strictly increasing ones.
C7_MonotoneForPositiveBase ==
    /\ (Convergent /\ Gt(fcf, Zero)) => StrictlyDecreasing
    /\ (Convergent /\ IsZero(fcf)) =>
          /\ \A k \in 1..Len(fcf_list) : fcf_list[k] = Zero
          /\ discounted_terminal = Zero
    /\ (Convergent /\ Lt(fcf, Zero)) =>
          \A r2 \in ComparedRates :
              Gt(r2, discount_rate) =>
                  /\ \A k \in 1..Len(fcf_list) :
                        Below(fcf_list[k], DiscountedFcf(fcf, G, r2, k))
                  /\ Below(discounted_terminal, DiscountedTerminalAt(r2))

\* C7 witness: a positive base, growth, the longest projection, and a rate
\* that has higher rates to compare with.
C7_Witness ==
    /\ Convergent /\ Gt(fcf, Zero) /\ Gt(G, Zero) /\ Gt(Tg, Zero)
    /\ years = MaxYears /\ Len(fcf_list) = years
    /\ \E r2 \in ComparedRates : Gt(r2, discount_rate)

\* C8: the intrinsic value is the sum of the projection entries plus the
\* discounted terminal value and nothing else; with zero projection years
\* the projection is empty and the intrinsic value is the undiscounted
\* Gordon value base * (1 + tg) / (r - tg).
C8_IntrinsicIsSumPlusTerminal ==
    dcf_value # None
        => /\ Sub(dcf_value, discounted_terminal) = SumList(fcf_list)
           /\ years = 0 =>
                /\ fcf_list = <<>>
                /\ dcf_value = discounted_terminal
                /\ Mul(dcf_value, Sub(discount_rate, Tg)) = Mul(fcf, Add(One, Tg))

\* C8 witness: a finished run with zero projection years and a non-zero
\* intrinsic value.
C8_Witness ==
    /\ pc = "done" /\ years = 0
    /\ dcf_value # None /\ ~IsZero(dcf_value)
    /\ Gt(G, Zero)

\* C9: the projection holds one entry per year, in order, entry k being
\* base * (1 + g)^k / (1 + r)^k; consecutive entries differ by the factor
\* (1 + g) / (1 + r); a negative base gives negative entries and no fault.
C9_ProjectionEntries ==
    /\ pc = "project" => Len(fcf_list) = i - 1
    /\ pc \in {"aggregate", "shares", "compare", "grid", "done", "crashed"}
          => Len(fcf_list) = years
    /\ \A k \in 1..Len(fcf_list) :
          /\ Mul(fcf_list[k], Pow(Add(One, discount_rate), k))
                = Mul(fcf, Pow(Add(One, G), k))
          /\ k > 1 => Mul(fcf_list[k], Add(One, discount_rate))
                        = Mul(fcf_list[k - 1], Add(One, G))
          /\ Lt(fcf, Zero) => Lt(fcf_list[k], Zero)
    /\ pc = "project" => fault = "none"

\* C9 witness: the longest projection of a negative base with growth and a
\* positive discount rate, complete.
C9_Witness ==
    /\ pc = "aggregate" /\ years = MaxYears /\ Len(fcf_list) = MaxYears
    /\ Lt(fcf, Zero) /\ Gt(G, Zero) /\ Gt(discount_rate, Zero)
    /\ Lt(fcf_list[MaxYears], Zero)

\* The closed form of a cell: the annuity base * (1 - (1+r)^-n) / r plus the
\* Gordon value base * (1+g) / (r-g) discounted over n years, shown in
\* millions with two decimals.
ClosedFormCell(f, n, g, r) ==
    LET growth == Pow(Add(One, r), n)
        annuity == Div(Mul(f, Sub(One, Inv(growth))), r)
        gordon == Div(Div(Mul(f, Add(One, g)), Sub(r, g)), growth)
    IN Round2(Div(Add(annuity, gordon), UnitsPerMillion))

ExpectedTable ==
    [f \in FcfValues |-> [n \in 1..MaxYears |->
        [row \in 1..5 |-> [col \in 1..5 |->
            ClosedFormCell(f, n, growth_rates[row], discount_rates[col])]]]]

Ascending(rates) == \A a, b \in 1..Len(rates) : a < b => Lt(rates[a], rates[b])

\* C10: the table has one row per candidate growth rate and one column per
\* candidate discount rate, in ascending order, 5 by 5; the cell at row g and
\* column r is a function of fcf, years, g and r alone.
C10_GridCellsIndependent ==
    (variant = "streamlit" /\ pc = "done")
        => /\ Len(table) = 5
           /\ \A row \in 1..5 : Len(table[row]) = 5
           /\ table = ExpectedTable[fcf][years]
           /\ Ascending(growth_rates) /\ Ascending(discount_rates)

\* C10 witness: a finished table for a non-zero base over the longest
\* projection, whose cells differ along a row and along a column.
C10_Witness ==
    /\ variant = "streamlit" /\ pc = "done"
    /\ ~IsZero(fcf) /\ years = MaxYears
    /\ Len(table) = 5
    /\ table[1][1] # table[1][5]
    /\ table[1][1] # table[5][1]

====
